---- MODULE Spec2Model ----
(***************************************************************************)
(* Model of src/src/index.js (the second, current copy of the program,     *)
(* lines 279-629): the Telegram bot handlers /start, get_link and text,    *)
(* the PostgreSQL tables users / user_states / requests they read and      *)
(* write, and the HTTP route /c/:token.                                     *)
(*                                                                         *)
(* Every handler is an async function; each await is a point where other   *)
(* handlers may run, so a handler is a process with one step per await.    *)
(* Strings are sequences of one-character strings so that the regular      *)
(* expressions, trim, parseInt and String can be computed.                 *)
(***************************************************************************)
EXTENDS Integers, Sequences, FiniteSets, Bags

\* ------------------------------------------------------------------ bounds
\* number of events (chat updates, HTTP requests) delivered in one behaviour
MaxEvents == 3
\* number of handlers that may be between two awaits at the same time
MaxInFlight == 2
\* number of persistence / gateway operations that may fail in one behaviour
MaxFaults == 1
\* number of outcomes of the random source that are explored
NumSeeds == 2
\* number of sample message texts the owner may send
NumTexts == 4

\* --------------------------------------------------------------- constants
NULL == <<>>

\* const BOT_OWNER_ID = 6910097562 (an identity, only ever compared)
BOT_OWNER_ID == "6910097562"
OTHER_USER_ID == "1001"
UserIds == {BOT_OWNER_ID, OTHER_USER_ID}

\* const BASE_URL = process.env.BASE_URL || 'https://borkstudio'
BASE_URL == <<"h","t","t","p","s",":","/","/","b","o","r","k","s","t","u","d","i","o">>

\* generateRandomToken(14)
TokenLen == 14

alphabet ==
  <<"A","B","C","D","E","F","G","H","I","J","K","L","M","N","O","P","Q","R","S","T","U","V","W","X","Y","Z",
    "a","b","c","d","e","f","g","h","i","j","k","l","m","n","o","p","q","r","s","t","u","v","w","x","y","z",
    "0","1","2","3","4","5","6","7","8","9">>

\* ------------------------------------------------------- character classes
Digits == {"0","1","2","3","4","5","6","7","8","9"}
Letters == {alphabet[i] : i \in 1..52}
\* \w
WordChars == Letters \cup Digits \cup {"_"}
\* [\w.-]
HostChars == WordChars \cup {".", "-"}
\* [\w\-._~:/?#[\]@!$&'()*+,;=.]
PathChars == WordChars \cup {"-", ".", "_", "~", ":", "/", "?", "#", "[", "]", "@", "!", "$", "&",
                             "'", "(", ")", "*", "+", ",", ";", "="}
\* characters String.prototype.trim removes
WhiteSpace == {" ", "\t", "\n", "\r"}

\* ------------------------------------------------------------ sample inputs
AllTexts ==
  << <<"0","0","7">>,
     <<"h","e","l","l","o"," ","w","o","r","l","d">>,
     <<"0">>,
     <<" ","H","t","t","p","s",":","/","/","t",".","m","e","/","n","f","t","/","x","-","1","\n">>,
     <<"4","2">>,
     <<"h","t","t","p",":","/","/","a","/">> >>
OwnerTexts == {AllTexts[i] : i \in 1..NumTexts}
\* numerals beyond the integers a Number holds exactly (2^53 + 1) and beyond the
\* plain decimal form of String (10^21): a chat message may be 4096 characters
LongTexts ==
  { <<"9","0","0","7","1","9","9","2","5","4","7","4","0","9","9","3">>,
    <<"1","0","0","0","0","0","0","0","0","0","0","0","0","0","0","0","0","0","0","0","0","0">> }
\* a non-owner's text is never read by the handler
OtherTexts == {<<"h","i">>}
\* ctx.from.username as delivered by the gateway ("" when the user has none)
Usernames == {"", "bork"}
\* the username a user has in the main specification
UsernameOf(u) == IF u = BOT_OWNER_ID THEN "bork" ELSE ""

Seeds == 0..(NumSeeds - 1)

\* ------------------------------------------------------------ pure helpers
RECURSIVE TrimStart(_)
TrimStart(s) ==
  IF Len(s) > 0 /\ s[1] \in WhiteSpace THEN TrimStart(Tail(s)) ELSE s

RECURSIVE TrimEnd(_)
TrimEnd(s) ==
  IF Len(s) > 0 /\ s[Len(s)] \in WhiteSpace THEN TrimEnd(SubSeq(s, 1, Len(s) - 1)) ELSE s

\* (ctx.message.text || '').trim()
Trim(s) == TrimEnd(TrimStart(s))

\* /^\d+$/.test(text)
isNumber(text) == Len(text) >= 1 /\ \A i \in 1..Len(text) : text[i] \in Digits

\* https?:\/\/ with the i flag: length of the scheme prefix, 0 when absent
SchemeLen(text) ==
  LET ci(i, lo, up) == Len(text) >= i /\ text[i] \in {lo, up}
      http == ci(1,"h","H") /\ ci(2,"t","T") /\ ci(3,"t","T") /\ ci(4,"p","P")
      sep(i) == Len(text) >= i + 2 /\ text[i] = ":" /\ text[i+1] = "/" /\ text[i+2] = "/"
  IN  IF http /\ sep(5) THEN 7
      ELSE IF http /\ ci(5,"s","S") /\ sep(6) THEN 8
      ELSE 0

\* /^(https?:\/\/)[\w.-]+(?:\/[\w\-._~:/?#[\]@!$&'()*+,;=.]+)?$/i.test(text)
isUrl(text) ==
  LET p == SchemeLen(text)
      rest == SubSeq(text, p + 1, Len(text))
      n == Len(rest)
  IN  /\ p > 0
      /\ \E k \in 1..n :
           /\ \A i \in 1..k : rest[i] \in HostChars
           /\ \/ k = n
              \/ /\ n >= k + 2
                 /\ rest[k+1] = "/"
                 /\ \A i \in (k+2)..n : rest[i] \in PathChars

DigitVal(c) == CHOOSE d \in 0..9 : alphabet[53 + d] = c

\* A JS number that holds a non-negative integer is the sequence of its decimal
\* digits (0..9), most significant first, without leading zeros; zero is <<0>>.
Zero == <<0>>

RECURSIVE Normalize(_)
Normalize(n) == IF Len(n) > 1 /\ n[1] = 0 THEN Normalize(Tail(n)) ELSE n

\* a < b
RECURSIVE Less(_, _)
Less(a, b) ==
  IF Len(a) # Len(b) THEN Len(a) < Len(b)
  ELSE IF Len(a) = 0 THEN FALSE
  ELSE IF a[1] # b[1] THEN a[1] < b[1]
  ELSE Less(Tail(a), Tail(b))

IsOdd(n) == n[Len(n)] % 2 = 1

\* floor(n / 2), by long division
RECURSIVE HalfFrom(_, _)
HalfFrom(n, carry) ==
  IF Len(n) = 0 THEN <<>>
  ELSE LET d == carry * 10 + n[1]
       IN  <<d \div 2>> \o HalfFrom(Tail(n), d % 2)
Half(n) == Normalize(HalfFrom(n, 0))

\* n * 2 + carry, from the least significant digit
RECURSIVE DoubleFrom(_, _)
DoubleFrom(n, carry) ==
  IF Len(n) = 0 THEN (IF carry = 0 THEN <<>> ELSE <<carry>>)
  ELSE LET d == n[Len(n)] * 2 + carry
       IN  DoubleFrom(SubSeq(n, 1, Len(n) - 1), d \div 10) \o <<d % 10>>
Double(n) == DoubleFrom(n, 0)

\* n + 1
RECURSIVE Inc(_)
Inc(n) ==
  IF Len(n) = 0 THEN <<1>>
  ELSE IF n[Len(n)] < 9 THEN [n EXCEPT ![Len(n)] = @ + 1]
  ELSE Inc(SubSeq(n, 1, Len(n) - 1)) \o <<0>>

RECURSIVE DoubleTimes(_, _)
DoubleTimes(n, k) == IF k = 0 THEN n ELSE DoubleTimes(Double(n), k - 1)

\* 2^53: a Number has a 53-bit significand
TwoTo53 == <<9,0,0,7,1,9,9,2,5,4,7,4,0,9,9,2>>

\* the Number nearest to the integer n (ties to even): q is n shifted right k bits,
\* round the last bit shifted out, sticky whether any earlier one was set
RECURSIVE RoundShift(_, _, _, _)
RoundShift(q, k, round, sticky) ==
  IF Less(q, TwoTo53)
  THEN DoubleTimes(IF round /\ (sticky \/ IsOdd(q)) THEN Inc(q) ELSE q, k)
  ELSE RoundShift(Half(q), k + 1, IsOdd(q), sticky \/ round)
ToNumber(n) == RoundShift(n, 0, FALSE, FALSE)

\* parseInt(text, 10) for an all-digits text: the Number nearest to the integer
parseInt(text) == ToNumber(Normalize([i \in 1..Len(text) |-> DigitVal(text[i])]))

\* the decimal digits of n as characters
DigitChars(n) == [i \in 1..Len(n) |-> alphabet[53 + n[i]]]

\* n without its trailing zeros
RECURSIVE StripTrailingZeros(_)
StripTrailingZeros(n) ==
  IF Len(n) > 1 /\ n[Len(n)] = 0 THEN StripTrailingZeros(SubSeq(n, 1, Len(n) - 1)) ELSE n

RECURSIVE NatDigits(_)
NatDigits(k) == IF k < 10 THEN <<k>> ELSE NatDigits(k \div 10) \o <<k % 10>>

\* String(n) for a non-negative integer Number: the decimal digits below 10^21,
\* the exponent form d[.ddd]e+x from 10^21 on (Number::toString). The digits of
\* the exponent form are those of the exact value; the shortest digits that
\* round-trip may be fewer, the form is the same.
NumToString(n) ==
  IF Len(n) <= 21 THEN DigitChars(n)
  ELSE LET m == DigitChars(StripTrailingZeros(n))
       IN  <<m[1]>> \o (IF Len(m) > 1 THEN <<".">> \o Tail(m) ELSE <<>>)
           \o <<"e", "+">> \o DigitChars(NatDigits(Len(n) - 1))

\* a JS value that is either a number or a string
NumberValue(n) == [isNum |-> TRUE, num |-> n, str |-> NULL]
StringValue(s) == [isNum |-> FALSE, num |-> Zero, str |-> s]
\* String(value)
String(v) == IF v.isNum THEN NumToString(v.num) ELSE v.str

\* mutant: the check value <= 0 is value < 0
ClassifyMutant(text) ==
  IF ~isNumber(text) /\ ~isUrl(text) THEN "invalid"
  ELSE IF isNumber(text) /\ Less(parseInt(text), Zero) THEN "zero"
  ELSE IF isNumber(text) THEN "stars"
  ELSE "nft"

\* the branch of the text handler a trimmed text takes (lines 573-583)
Classify(text) ==
  IF ~isNumber(text) /\ ~isUrl(text) THEN "invalid"
  ELSE IF isNumber(text) /\ ~Less(Zero, parseInt(text)) THEN "zero"
  ELSE IF isNumber(text) THEN "stars"
  ELSE "nft"

\* const value = isNumber ? parseInt(text, 10) : text
ValueOf(text) == IF isNumber(text) THEN NumberValue(parseInt(text)) ELSE StringValue(text)

\* Math.floor(Math.random() * alphabet.length), i-th draw of random stream s
RandomIndex(s, i) == (s + i * 7) % Len(alphabet)

\* generateRandomToken(len) under random stream s
generateRandomToken(len, s) == [i \in 1..len |-> alphabet[RandomIndex(s, i) + 1]]

\* mutant: the link lacks the /c/ path segment of the route
LinkOfMutant(token) == BASE_URL \o <<"/">> \o token

\* `${BASE_URL}/c/${token}`
LinkOf(token) == BASE_URL \o <<"/","c","/">> \o token

\* tokens a visitor may put in the URL path: one the flow can issue, one it never issues
TokenSamples == {generateRandomToken(TokenLen, 0), generateRandomToken(TokenLen, NumSeeds)}

\* ------------------------------------------------------------------- state
VARIABLES
  pool,         \* TRUE iff DATABASE_URL is set (const pool = DATABASE_URL ? new Pool : null)
  users,        \* table users: telegram_id -> [username]
  user_states,  \* table user_states: user_id -> state
  requests,     \* table requests: id -> [user_id, request_type, request_value, generated_link]
  handlers,     \* the handler invocations in progress: a bag of [event, locals, position]
  delivered,    \* number of updates the gateway has delivered
  sent,         \* the messages the last step sent through the gateway, in order
  unhandled,    \* number of rejections that left a handler uncaught
  response,     \* the HTTP response the last step sent, if it was GET /c/:token
  faults        \* number of operations that have failed so far

vars == <<pool, users, user_states, requests, handlers, delivered, sent, unhandled,
          response, faults>>

\* INSERT ... ON CONFLICT (key) DO UPDATE
Upsert(table, key, row) == [k \in DOMAIN table \cup {key} |-> IF k = key THEN row ELSE table[k]]
\* DELETE FROM ... WHERE key
Delete(table, key) == [k \in DOMAIN table \ {key} |-> table[k]]
EmptyTable == [k \in {} |-> NULL]

\* username || null
OrNull(s) == IF s = "" THEN "null" ELSE s

\* the row upsertUser(user) writes
UserRow(username) == [username |-> OrNull(username)]

\* rows[0]?.state || null
StateOf(table, userId) ==
  IF userId \in DOMAIN table /\ table[userId] # "" THEN table[userId] ELSE "null"

\* texts of the outgoing messages; the fixed wording is one lexeme
MsgOwnerGreeting == <<"Privet! ... [Poluchit' ssylku -> get_link]">>
MsgSponsors == <<"Pozhalujsta, podpishites' na vseh sponsorov i vernites'.">>
MsgUnavailable == <<"Dejstvie nedostupno.">>
MsgAck == <<"">>
MsgPrompt == <<"Otprav'te kolichestvo zvjozd (chislom) ili ssylku na NFT, kotoruju hotite zabrat'.">>
MsgInvalid == <<"Pozhalujsta, otprav'te polozhitel'noe chislo (zvjozdy) ili korrektnuju ssylku (NFT).">>
MsgZero == <<"Kolichestvo zvjozd dolzhno byt' bol'she 0. Poprobujte snova.">>
MsgError == <<"Proizoshla oshibka. Poprobujte eshhjo raz.">>
ReadyPrefix == <<"Gotovo! Vasha unikal'naja ssylka: ">>
\* `Готово! Ваша уникальная ссылка: ${link}`
MsgReady(link) == ReadyPrefix \o link

\* a message to a user: via "reply" (ctx.reply) or "answerCbQuery"
Message(via, to, text) == [via |-> via, to |-> to, text |-> text]

\* a handler invocation: the update (kind, from, username, text), the position pc (the
\* awaited call it performs next), the awaited calls completed (did) and the locals
NewHandler(kind, from, username, text, pc) ==
  [kind |-> kind, from |-> from, username |-> username, text |-> text, pc |-> pc,
   token |-> NULL, link |-> NULL, type |-> "", value |-> StringValue(NULL), did |-> <<>>]

InFlight == BagToSet(handlers)

CanFail == faults < MaxFaults

NoResponse == [token |-> NULL, lookup |-> "none", status |-> 0, body |-> NULL]

\* the database the process connects to may already hold the owner's users row
\* (a /start handled before the last restart); all other tables start empty
Init ==
  /\ pool \in BOOLEAN
  /\ users \in {EmptyTable, Upsert(EmptyTable, BOT_OWNER_ID, UserRow(UsernameOf(BOT_OWNER_ID)))}
  /\ pool = FALSE => users = EmptyTable
  /\ user_states = EmptyTable
  /\ requests = EmptyTable
  /\ handlers = EmptyBag
  /\ delivered = 0
  /\ sent = <<>>
  /\ unhandled = 0
  /\ response = NoResponse
  /\ faults = 0

\* the bag of handlers after the handler hr has become hr2
Replace(hr, hr2) == (handlers (-) SetToBag({hr})) (+) SetToBag({hr2})
\* the handler hr moves to its next await, having completed the call op
Goto(hr, op, pc) ==
  handlers' = Replace(hr, [hr EXCEPT !.pc = pc, !.did = Append(@, op)])
\* the handler hr returns
Return(hr) == handlers' = handlers (-) SetToBag({hr})
\* the step sends the messages msgs
Send(msgs) == sent' = msgs
Silent == Send(<<>>)

\* --------------------------------------------------- delivery of an update
Deliver(kind, from, username, text, pc) ==
  /\ delivered < MaxEvents
  /\ BagCardinality(handlers) < MaxInFlight
  /\ handlers' = handlers (+) SetToBag({NewHandler(kind, from, username, text, pc)})
  /\ delivered' = delivered + 1
  /\ Silent
  /\ response' = NoResponse
  /\ UNCHANGED <<pool, users, user_states, requests, unhandled, faults>>

DeliverStart == \E u \in UserIds : Deliver("start", u, UsernameOf(u), NULL, "upsertUser")
DeliverGetLink == \E u \in UserIds : Deliver("get_link", u, UsernameOf(u), NULL, "answerCbQuery")
DeliverText ==
  \/ \E t \in OwnerTexts : Deliver("text", BOT_OWNER_ID, UsernameOf(BOT_OWNER_ID), t, "getUserState")
  \/ \E t \in OtherTexts : Deliver("text", OTHER_USER_ID, UsernameOf(OTHER_USER_ID), t, "getUserState")

\* the owner sends a long numeral
DeliverLongText ==
  \E t \in LongTexts : Deliver("text", BOT_OWNER_ID, UsernameOf(BOT_OWNER_ID), t, "getUserState")

\* a handler at position pc, about to perform its next awaited operation
At(hr, kind, pc) == hr \in InFlight /\ hr.kind = kind /\ hr.pc = pc

\* an awaited operation rejects: one more fault, no effect of its own
Fails == CanFail /\ faults' = faults + 1

\* a handler step never answers an HTTP request
HandlerFrame == response' = NoResponse /\ UNCHANGED <<pool, delivered>>

\* ----------------------------------------------------------- bot.start
\* await upsertUser(ctx.from); on rejection: catch (err) { console.error }
StartUpsert(hr) ==
  /\ At(hr, "start", "upsertUser")
  /\ \/ /\ ~pool
        /\ Goto(hr, "upsertUser", "reply")
        /\ UNCHANGED <<users, faults>>
     \/ /\ pool
        /\ users' = Upsert(users, hr.from, UserRow(hr.username))
        /\ Goto(hr, "upsertUser", "reply")
        /\ UNCHANGED faults
     \/ /\ pool
        /\ Fails
        /\ Return(hr)
        /\ UNCHANGED users
  /\ Silent
  /\ HandlerFrame
  /\ UNCHANGED <<user_states, requests, unhandled>>

\* the greeting of bot.start: the get_link button for the owner, the sponsors otherwise
StartGreeting(from) == IF from = BOT_OWNER_ID THEN MsgOwnerGreeting ELSE MsgSponsors

\* await ctx.reply(greeting)
StartReply(hr) ==
  /\ At(hr, "start", "reply")
  /\ \/ /\ Send(<<Message("reply", hr.from, StartGreeting(hr.from))>>)
        /\ UNCHANGED faults
     \/ /\ Fails
        /\ Silent
  /\ Return(hr)
  /\ HandlerFrame
  /\ UNCHANGED <<users, user_states, requests, unhandled>>

\* ------------------------------------------------- bot.action('get_link')
\* mutant: the owner check of get_link is dropped
GetLinkIsOwnerMutant(from) == TRUE

\* if (ctx.from.id !== BOT_OWNER_ID)
GetLinkIsOwner(from) == from = BOT_OWNER_ID

\* await ctx.answerCbQuery('unavailable'); return  |  await ctx.answerCbQuery()
GetLinkAnswer(hr) ==
  /\ At(hr, "get_link", "answerCbQuery")
  /\ \/ /\ ~GetLinkIsOwner(hr.from)
        /\ Send(<<Message("answerCbQuery", hr.from, MsgUnavailable)>>)
        /\ Return(hr)
        /\ UNCHANGED faults
     \/ /\ GetLinkIsOwner(hr.from)
        /\ Send(<<Message("answerCbQuery", hr.from, MsgAck)>>)
        /\ Goto(hr, "answerCbQuery", "setUserState")
        /\ UNCHANGED faults
     \/ /\ Fails
        /\ Silent
        /\ Return(hr)
  /\ HandlerFrame
  /\ UNCHANGED <<users, user_states, requests, unhandled>>

\* an insert violates "user_id BIGINT REFERENCES users(telegram_id)"
ForeignKeyViolation(userId) == userId \notin DOMAIN users

\* mutant: the state written is not the one the text handler waits for
setUserStateOtherMutant(userId, state) == Upsert(user_states, userId, "idle")

\* mutant: the state is not written
setUserStateMutant(userId, state) == user_states

\* the table user_states after the query of setUserState(userId, state)
setUserState(userId, state) == Upsert(user_states, userId, state)

\* await setUserState(ctx.from.id, 'awaiting_request')
GetLinkSetState(hr) ==
  /\ At(hr, "get_link", "setUserState")
  /\ \/ /\ ~pool
        /\ Goto(hr, "setUserState", "reply")
        /\ UNCHANGED <<user_states, faults>>
     \/ /\ pool
        /\ ~ForeignKeyViolation(hr.from)
        /\ user_states' = setUserState(hr.from, "awaiting_request")
        /\ Goto(hr, "setUserState", "reply")
        /\ UNCHANGED faults
     \/ /\ pool
        /\ \/ ForeignKeyViolation(hr.from) /\ UNCHANGED faults
           \/ Fails
        /\ Return(hr)
        /\ UNCHANGED user_states
  /\ Silent
  /\ HandlerFrame
  /\ UNCHANGED <<users, requests, unhandled>>

\* await ctx.reply(prompt)
GetLinkReply(hr) ==
  /\ At(hr, "get_link", "reply")
  /\ \/ /\ Send(<<Message("reply", hr.from, MsgPrompt)>>)
        /\ UNCHANGED faults
     \/ /\ Fails
        /\ Silent
  /\ Return(hr)
  /\ HandlerFrame
  /\ UNCHANGED <<users, user_states, requests, unhandled>>

\* ------------------------------------------------------- bot.on('text')
\* mutant: the text handler does not look at the state it read
TextIsIgnoredNoStateMutant(from, state) == from # BOT_OWNER_ID

\* mutant: a text of the owner is ignored while another text handler is completing
TextIsIgnoredMutant(from, state) ==
  \/ from # BOT_OWNER_ID
  \/ state # "awaiting_request"
  \/ \E h \in InFlight : h.kind = "text" /\ h.pc \in {"saveRequest", "clearUserState"}

\* if (ctx.from.id !== BOT_OWNER_ID || state !== 'awaiting_request') return
TextIsIgnored(from, state) == from # BOT_OWNER_ID \/ state # "awaiting_request"

\* what getUserState(userId) resolves to
getUserState(userId) == IF ~pool THEN "null" ELSE StateOf(user_states, userId)

\* the locals computed between the state read and saveRequest (lines 569-586)
TextLocals(hr, s) ==
  LET text == Trim(hr.text)
      token == generateRandomToken(TokenLen, s)
  IN  [hr EXCEPT !.type = IF isNumber(text) THEN "stars" ELSE "nft",
                 !.value = ValueOf(text),
                 !.token = token,
                 !.link = LinkOf(token),
                 !.pc = "saveRequest",
                 !.did = Append(@, "getUserState")]

\* const state = await getUserState(ctx.from.id), then the code up to the next await
TextGetState(hr) ==
  /\ At(hr, "text", "getUserState")
  /\ LET state == getUserState(hr.from)
         text == Trim(hr.text)
         to(pc) == [hr EXCEPT !.pc = pc, !.did = Append(@, "getUserState")]
     IN
     \/ /\ TextIsIgnored(hr.from, state)
        /\ Return(hr)
        /\ UNCHANGED faults
     \/ /\ ~TextIsIgnored(hr.from, state)
        /\ Classify(text) = "invalid"
        /\ handlers' = Replace(hr, to("replyInvalid"))
        /\ UNCHANGED faults
     \/ /\ ~TextIsIgnored(hr.from, state)
        /\ Classify(text) = "zero"
        /\ handlers' = Replace(hr, to("replyZero"))
        /\ UNCHANGED faults
     \/ /\ ~TextIsIgnored(hr.from, state)
        /\ Classify(text) \in {"stars", "nft"}
        /\ \E s \in Seeds : handlers' = Replace(hr, TextLocals(hr, s))
        /\ UNCHANGED faults
     \/ /\ pool
        /\ Fails
        /\ Goto(hr, "throw", "catch")
  /\ Silent
  /\ HandlerFrame
  /\ UNCHANGED <<users, user_states, requests, unhandled>>

\* await ctx.reply(corrective message); return
TextReject(hr) ==
  /\ \/ At(hr, "text", "replyInvalid")
     \/ At(hr, "text", "replyZero")
  /\ \/ /\ Send(<<Message("reply", hr.from,
                          IF hr.pc = "replyInvalid" THEN MsgInvalid ELSE MsgZero)>>)
        /\ Return(hr)
        /\ UNCHANGED faults
     \/ /\ Fails
        /\ Silent
        /\ Goto(hr, "throw", "catch")
  /\ HandlerFrame
  /\ UNCHANGED <<users, user_states, requests, unhandled>>

\* the row saveRequest(token, userId, type, value, link) writes
RequestRow(userId, type, value, link) ==
  [user_id |-> userId, request_type |-> type, request_value |-> String(value),
   generated_link |-> link]

\* mutant: the row is keyed by an id of its own (const id = randomUUID()), not by the token
saveRequestMutant(token, userId, type, value, link) ==
  Upsert(requests, <<"u","u","i","d">>, RequestRow(userId, type, value, link))

\* the table requests after the query of saveRequest(token, userId, type, value, link)
saveRequest(token, userId, type, value, link) ==
  Upsert(requests, token, RequestRow(userId, type, value, link))

\* await saveRequest(token, ctx.from.id, type, value, link)
\* (pool is set here: without it getUserState returned null and the handler returned;
\*  the owner has a users row here: user_states references users as requests does)
TextSave(hr) ==
  /\ At(hr, "text", "saveRequest")
  /\ pool
  /\ \/ /\ ~ForeignKeyViolation(hr.from)
        /\ requests' = saveRequest(hr.token, hr.from, hr.type, hr.value, hr.link)
        /\ Goto(hr, "saveRequest", "clearUserState")
        /\ UNCHANGED faults
     \/ /\ Fails
        /\ Goto(hr, "throw", "catch")
        /\ UNCHANGED requests
  /\ Silent
  /\ HandlerFrame
  /\ UNCHANGED <<users, user_states, unhandled>>

\* mutant: the DELETE removes nothing
clearUserStateMutant(userId) == user_states

\* the table user_states after the query of clearUserState(userId)
clearUserState(userId) == Delete(user_states, userId)

\* await clearUserState(ctx.from.id)
TextClear(hr) ==
  /\ At(hr, "text", "clearUserState")
  /\ pool
  /\ \/ /\ user_states' = clearUserState(hr.from)
        /\ Goto(hr, "clearUserState", "replyReady")
        /\ UNCHANGED faults
     \/ /\ Fails
        /\ Goto(hr, "throw", "catch")
        /\ UNCHANGED user_states
  /\ Silent
  /\ HandlerFrame
  /\ UNCHANGED <<users, requests, unhandled>>

\* await ctx.reply(`Готово! Ваша уникальная ссылка: ${link}`)
TextReply(hr) ==
  /\ At(hr, "text", "replyReady")
  /\ \/ /\ Send(<<Message("reply", hr.from, MsgReady(hr.link))>>)
        /\ Return(hr)
        /\ UNCHANGED faults
     \/ /\ Fails
        /\ Silent
        /\ Goto(hr, "throw", "catch")
  /\ HandlerFrame
  /\ UNCHANGED <<users, user_states, requests, unhandled>>

\* mutant: the catch block only logs, as those of bot.start and get_link do
TextCatchMutant(hr) ==
  /\ At(hr, "text", "catch")
  /\ Silent
  /\ Return(hr)
  /\ HandlerFrame
  /\ UNCHANGED <<users, user_states, requests, unhandled, faults>>

\* catch (err) { console.error(...); await ctx.reply(generic error) }
\* a rejection of this reply leaves the handler uncaught
TextCatch(hr) ==
  /\ At(hr, "text", "catch")
  /\ \/ /\ Send(<<Message("reply", hr.from, MsgError)>>)
        /\ UNCHANGED <<faults, unhandled>>
     \/ /\ Fails
        /\ Silent
        /\ unhandled' = unhandled + 1
  /\ Return(hr)
  /\ HandlerFrame
  /\ UNCHANGED <<users, user_states, requests>>

\* ------------------------------------------------------ app.get('/c/:token')
\* mutant: the unit label of a stars value is missing
buildCopyHtmlMutant(fullUrl, row, notFound) ==
  [title |-> IF notFound THEN <<"Ssylka ne najdena">> ELSE <<"Skopirovat' ssylku">>,
   description |-> IF notFound THEN <<"Eta ssylka ne najdena ili istekla.">>
                   ELSE <<"Nazhmite knopku, chtoby skopirovat': ">> \o fullUrl,
   displayValue |-> IF row = NULL THEN NULL ELSE row.request_value,
   textToCopy |-> fullUrl]

\* the parts of the page buildCopyHtml(fullUrl, row, notFound) makes from its arguments
buildCopyHtml(fullUrl, row, notFound) ==
  [title |-> IF notFound THEN <<"Ssylka ne najdena">> ELSE <<"Skopirovat' ssylku">>,
   description |-> IF notFound THEN <<"Eta ssylka ne najdena ili istekla.">>
                   ELSE <<"Nazhmite knopku, chtoby skopirovat': ">> \o fullUrl,
   displayValue |-> IF row = NULL THEN NULL
                    ELSE IF row.request_type = "stars"
                         THEN row.request_value \o <<" zvjozd">>
                         ELSE row.request_value,
   textToCopy |-> fullUrl]

\* res.status(500).send('Server error')
ServerError == [title |-> NULL, description |-> <<"Server error">>, displayValue |-> NULL,
                textToCopy |-> NULL]

\* rows[0] of SELECT * FROM requests WHERE id = $1
RowOf(token) == IF token \in DOMAIN requests THEN requests[token] ELSE NULL

\* mutant: the not-found page is sent without status(404)
RouteStatusMutant(lookup) ==
  CASE lookup = "skipped" -> 200
    [] lookup = "miss"    -> 200
    [] lookup = "hit"     -> 200
    [] lookup = "error"   -> 500

\* the status GET /c/:token answers with, given what the lookup produced
RouteStatus(lookup) ==
  CASE lookup = "skipped" -> 200
    [] lookup = "miss"    -> 404
    [] lookup = "hit"     -> 200
    [] lookup = "error"   -> 500

\* mutant: without pool the route sends the not-found page
RouteBodyMutant(token, lookup) ==
  CASE lookup = "skipped" -> buildCopyHtml(LinkOf(token), NULL, TRUE)
    [] lookup = "miss"    -> buildCopyHtml(LinkOf(token), NULL, TRUE)
    [] lookup = "hit"     -> buildCopyHtml(LinkOf(token), RowOf(token), FALSE)
    [] lookup = "error"   -> ServerError

\* the body GET /c/:token answers with
RouteBody(token, lookup) ==
  CASE lookup = "skipped" -> buildCopyHtml(LinkOf(token), NULL, FALSE)
    [] lookup = "miss"    -> buildCopyHtml(LinkOf(token), NULL, TRUE)
    [] lookup = "hit"     -> buildCopyHtml(LinkOf(token), RowOf(token), FALSE)
    [] lookup = "error"   -> ServerError

Respond(token, lookup) ==
  response' = [token |-> token, lookup |-> lookup, status |-> RouteStatus(lookup),
               body |-> RouteBody(token, lookup)]

\* one GET /c/:token: the lookup (skipped without pool) and the response; the
\* request is one of the MaxEvents events the process receives
Resolve(token) ==
  /\ delivered < MaxEvents
  /\ delivered' = delivered + 1
  /\ \/ /\ ~pool
        /\ Respond(token, "skipped")
        /\ UNCHANGED faults
     \/ /\ pool
        /\ RowOf(token) = NULL
        /\ Respond(token, "miss")
        /\ UNCHANGED faults
     \/ /\ pool
        /\ RowOf(token) # NULL
        /\ Respond(token, "hit")
        /\ UNCHANGED faults
     \/ /\ pool
        /\ Fails
        /\ Respond(token, "error")
  /\ Silent
  /\ UNCHANGED <<pool, users, user_states, requests, handlers, unhandled>>

\* ------------------------------------------------------------ specification
\* the bot: updates are delivered and handlers run, interleaved at their awaits
Next ==
  \/ DeliverStart
  \/ DeliverGetLink
  \/ DeliverText
  \/ \E hr \in InFlight : StartUpsert(hr)
  \/ \E hr \in InFlight : StartReply(hr)
  \/ \E hr \in InFlight : GetLinkAnswer(hr)
  \/ \E hr \in InFlight : GetLinkSetState(hr)
  \/ \E hr \in InFlight : GetLinkReply(hr)
  \/ \E hr \in InFlight : TextGetState(hr)
  \/ \E hr \in InFlight : TextReject(hr)
  \/ \E hr \in InFlight : TextSave(hr)
  \/ \E hr \in InFlight : TextClear(hr)
  \/ \E hr \in InFlight : TextReply(hr)
  \/ \E hr \in InFlight : TextCatch(hr)

Spec == Init /\ [][Next]_vars

\* the bot together with the web server answering GET /c/:token
NextWeb ==
  \/ Next
  \/ \E token \in TokenSamples : Resolve(token)

SpecWeb == Init /\ [][NextWeb]_vars

\* the bot when the owner's texts include long numerals
NextLong ==
  \/ Next
  \/ DeliverLongText

SpecLong == Init /\ [][NextLong]_vars

\* a step of a get_link or text handler in progress
FlowStep ==
  \E hr \in InFlight :
    \/ GetLinkAnswer(hr) \/ GetLinkSetState(hr) \/ GetLinkReply(hr)
    \/ TextGetState(hr) \/ TextReject(hr) \/ TextSave(hr) \/ TextClear(hr)
    \/ TextReply(hr) \/ TextCatch(hr)

\* the text of the owner in the fair specification: an accepted one
FlowTexts == {AllTexts[1]}

\* the owner's updates of the link-request flow: the trigger and a text
DeliverFlow ==
  \/ Deliver("get_link", BOT_OWNER_ID, UsernameOf(BOT_OWNER_ID), NULL, "answerCbQuery")
  \/ \E t \in FlowTexts :
       Deliver("text", BOT_OWNER_ID, UsernameOf(BOT_OWNER_ID), t, "getUserState")

NextFlow ==
  \/ DeliverFlow
  \/ FlowStep

\* the owner's flow under fair scheduling. The event loop runs a continuation whose
\* awaited promise has settled: a handler in progress is not left waiting for ever
SpecFair == Init /\ [][NextFlow]_vars /\ WF_vars(FlowStep)

\* ================================================================== claims
\* the handler hr takes this step and becomes x
Becomes(hr, x) == x # hr /\ handlers' = Replace(hr, x)
\* the handler hr takes this step and moves to the awaited call pc
MovesTo(hr, pc) == \E x \in BagToSet(handlers') : Becomes(hr, x) /\ x.pc = pc
\* the handler hr returns (or leaves uncaught) in this step
Returned(hr) == hr \in InFlight /\ handlers' = handlers (-) SetToBag({hr})
\* the handler hr takes this step
Stepped(hr) == hr \in InFlight /\ (Returned(hr) \/ \E x \in BagToSet(handlers') : Becomes(hr, x))
\* no operation fails in this step
NoFault == faults' = faults

EndsWith(s, suffix) ==
  Len(s) >= Len(suffix) /\ SubSeq(s, Len(s) - Len(suffix) + 1, Len(s)) = suffix

RECURSIVE StripLeadingZeros(_)
StripLeadingZeros(digits) ==
  IF Len(digits) > 1 /\ digits[1] = "0" THEN StripLeadingZeros(Tail(digits)) ELSE digits

AllDigits(text) == text # <<>> /\ \A i \in 1..Len(text) : text[i] \in Digits
AllZeros(text) == text # <<>> /\ \A i \in 1..Len(text) : text[i] = "0"
\* a trimmed text the flow accepts / rejects, as the specification words it
Accepted(text) == (AllDigits(text) /\ ~AllZeros(text)) \/ (~AllDigits(text) /\ isUrl(text))
Rejected(text) == (~AllDigits(text) /\ ~isUrl(text)) \/ AllZeros(text)
ExpectedType(text) == IF AllDigits(text) THEN "stars" ELSE "nft"
ExpectedValue(text) == IF AllDigits(text) THEN StripLeadingZeros(text) ELSE text
ExpectedLink(token) == BASE_URL \o <<"/","c","/">> \o token

\* C1: no step of a get_link or text handler invoked by a non-owner changes a
\* conversation-state record or the requests; every message a non-owner's
\* get_link handler sends is the 'unavailable' acknowledgment.
C1_NonOwnerChangesNothing ==
  [][\A hr \in InFlight :
       (hr.kind \in {"get_link", "text"} /\ hr.from # BOT_OWNER_ID /\ Stepped(hr))
       => /\ user_states' = user_states
          /\ requests' = requests
          /\ hr.kind = "get_link"
             => /\ Returned(hr)
                /\ \A i \in 1..Len(sent') :
                     sent'[i] = Message("answerCbQuery", hr.from, MsgUnavailable)]_vars

\* a registered non-owner has just been answered 'unavailable' while the owner's flow is open
C1_Witness ==
  /\ sent = <<Message("answerCbQuery", OTHER_USER_ID, MsgUnavailable)>>
  /\ OTHER_USER_ID \in DOMAIN users
  /\ StateOf(user_states, BOT_OWNER_ID) = "awaiting_request"

\* C2: with persistence configured, when the owner's get_link handler gets past
\* setUserState without a failure the owner's state is awaiting_request, whatever
\* it was before; and the handler sends the prompt only after setUserState completed.
C2_TriggerPersistsThenPrompts ==
  [][\A hr \in InFlight :
       (pool /\ hr.kind = "get_link" /\ hr.from = BOT_OWNER_ID /\ Stepped(hr))
       => /\ (hr.pc = "setUserState" /\ MovesTo(hr, "reply"))
             => StateOf(user_states', BOT_OWNER_ID) = "awaiting_request"
          /\ (\E i \in 1..Len(sent') : sent'[i].text = MsgPrompt)
             => /\ hr.did = <<"answerCbQuery", "setUserState">>
                /\ sent' = <<Message("reply", BOT_OWNER_ID, MsgPrompt)>>]_vars

\* the prompt has just been sent and the owner's state is awaiting_request
C2_Witness ==
  /\ pool
  /\ sent = <<Message("reply", BOT_OWNER_ID, MsgPrompt)>>
  /\ StateOf(user_states, BOT_OWNER_ID) = "awaiting_request"

C4_InvalidTextKeepsState ==
  [][\A hr \in InFlight :
       LET text == Trim(hr.text) IN
       (hr.kind = "text" /\ hr.from = BOT_OWNER_ID /\ Stepped(hr) /\ Rejected(text))
       => /\ user_states' = user_states
          /\ requests' = requests
          /\ \A x \in BagToSet(handlers') :
               Becomes(hr, x) => x.pc \in {"replyInvalid", "replyZero", "catch"}
          /\ (hr.pc = "getUserState" /\ getUserState(BOT_OWNER_ID) = "awaiting_request" /\ NoFault)
             => MovesTo(hr, IF AllZeros(text) THEN "replyZero" ELSE "replyInvalid")
          /\ (hr.pc \in {"replyInvalid", "replyZero"} /\ NoFault)
             => /\ Returned(hr)
                /\ sent' = <<Message("reply", BOT_OWNER_ID,
                                     IF AllZeros(text) THEN MsgZero ELSE MsgInvalid)>>]_vars

\* "0" has just been rejected: the owner is still awaiting_request and nothing is stored
C4_Witness ==
  /\ sent = <<Message("reply", BOT_OWNER_ID, MsgZero)>>
  /\ StateOf(user_states, BOT_OWNER_ID) = "awaiting_request"
  /\ requests = EmptyTable

\* C5: a text handler of a non-owner, or of the owner reading no flow in progress,
\* returns at once whatever the persistence operations do: it sends nothing and
\* changes neither user_states nor requests.
C5_IgnoredTextIsNoOp ==
  [][\A hr \in InFlight :
       (hr.kind = "text" /\ Stepped(hr))
       => /\ (hr.pc = "getUserState"
               /\ (hr.from # BOT_OWNER_ID \/ getUserState(BOT_OWNER_ID) # "awaiting_request"))
             => /\ Returned(hr)
                /\ sent' = <<>>
                /\ user_states' = user_states
                /\ requests' = requests
          /\ hr.from # BOT_OWNER_ID
             => /\ sent' = <<>>
                /\ user_states' = user_states
                /\ requests' = requests]_vars

\* the display form of the value of an accepted text: the integer followed by the
\* unit label for digits, the URL itself otherwise
DisplayForm(text) ==
  IF AllDigits(text) THEN StripLeadingZeros(text) \o <<" zvjozd">> ELSE text

\* the last step answered GET /c/:token after a lookup that did not fail
Looked == pool /\ response.status \notin {0, 500}

\* C6: resolving the token of a stored Request answers 200 with a page that shows
\* base URL + '/c/' + token, the link stored with the Request and replied to the owner,
\* and the display form of the value of an accepted text: the stored value, followed
\* by the unit label when the type is stars.
C6_RoundTrip ==
  (Looked /\ response.token \in DOMAIN requests)
  => LET row == requests[response.token]
         page == response.body
     IN /\ response.status = 200
        /\ page.textToCopy = ExpectedLink(response.token)
        /\ page.textToCopy = row.generated_link
        /\ EndsWith(page.description, row.generated_link)
        /\ page.displayValue = IF row.request_type = "stars"
                               THEN row.request_value \o <<" zvjozd">>
                               ELSE row.request_value
        /\ \E t \in OwnerTexts :
             /\ Accepted(Trim(t))
             /\ row.request_type = ExpectedType(Trim(t))
             /\ page.displayValue = DisplayForm(Trim(t))

\* the flow for "007" has completed without a failure and its token has been resolved
C6_Witness ==
  /\ Looked
  /\ response.status = 200
  /\ response.body.displayValue = <<"7", " zvjozd">>
  /\ handlers = EmptyBag
  /\ faults = 0

\* the token a link reply ends with
TokenOfReply(text) == SubSeq(text, Len(text) - TokenLen + 1, Len(text))
IsLinkReply(msg) == msg.via = "reply" /\ Len(msg.text) > TokenLen /\ Head(msg.text) = Head(ReadyPrefix)

\* C7: a link is replied only when its token is already stored; a stored Request is
\* never deleted; and with persistence configured a not-found (404) answer is given
\* only for a token that is not stored. So a token issued in a link reply is never
\* answered 404 afterwards.
C7_IssuedTokenNeverNotFound ==
  [][/\ \A i \in 1..Len(sent') :
          IsLinkReply(sent'[i]) => TokenOfReply(sent'[i].text) \in DOMAIN requests
     /\ \A t \in DOMAIN requests : t \in DOMAIN requests'
     /\ (pool /\ response'.status = 404) => response'.token \notin DOMAIN requests']_vars

\* a flow has completed without a failure and the token of its Request has been resolved
C7_Witness ==
  /\ pool
  /\ response.status = 200
  /\ response.token \in DOMAIN requests
  /\ BOT_OWNER_ID \notin DOMAIN user_states
  /\ handlers = EmptyBag
  /\ faults = 0

\* C8: with persistence configured the route answers 404 with the not-found page
\* exactly when the lookup finds no row, 200 exactly when it finds one, and 500
\* exactly when the lookup fails.
C8_DistinctStatuses ==
  (pool /\ response.status # 0)
  => /\ response.status \in {200, 404, 500}
     /\ response.status = 500 <=> response.lookup = "error"
     /\ response.status = 404
        => /\ response.token \notin DOMAIN requests
           /\ response.body = buildCopyHtml(ExpectedLink(response.token), NULL, TRUE)
     /\ response.status = 200 => response.token \in DOMAIN requests
     /\ response.lookup = "miss" => response.status = 404
     /\ response.lookup = "hit" => response.status = 200

\* the lookup of an unknown token has just been answered 404
C8_Witness ==
  /\ pool
  /\ response.status = 404
  /\ response.lookup = "miss"
  /\ requests # EmptyTable

\* the awaited calls that read or write the tables
PersistenceCalls == {"upsertUser", "setUserState", "getUserState", "saveRequest", "clearUserState"}

\* C9: when a persistence call of any handler fails the handler goes to its catch
\* block, which (when its own reply does not fail) sends the generic error reply to
\* the sender.
C9_PersistenceFailureReplied ==
  [][\A hr \in InFlight :
       Stepped(hr)
       => /\ (pool /\ hr.pc \in PersistenceCalls /\ ~NoFault) => MovesTo(hr, "catch")
          /\ (hr.pc = "catch" /\ NoFault)
             => /\ sent' = <<Message("reply", hr.from, MsgError)>>
                /\ unhandled' = unhandled]_vars

\* C10: once a Request is stored under a token, that token keeps that Request: its
\* type, value, link and owning user never change and it is never removed.
C10_RequestsImmutable ==
  [][\A t \in DOMAIN requests : t \in DOMAIN requests' /\ requests'[t] = requests[t]]_vars

\* C11: handlers of the same user are not mutually exclusive: while a text handler
\* of the owner has read awaiting_request and not yet cleared it, another text
\* handler of the owner that reads the state for an accepted text reads
\* awaiting_request too and goes on to saveRequest; and its saveRequest under a
\* token not yet stored adds a second row beside the rows already stored.
C11_HandlersNotExclusive ==
  [][\A hr \in InFlight :
       (hr.kind = "text" /\ hr.from = BOT_OWNER_ID /\ NoFault /\ Stepped(hr))
       => /\ (/\ hr.pc = "getUserState"
              /\ \E h2 \in InFlight :
                   h2.kind = "text" /\ h2.pc \in {"saveRequest", "clearUserState"}
              /\ StateOf(user_states, BOT_OWNER_ID) = "awaiting_request"
              /\ Accepted(Trim(hr.text)))
             => MovesTo(hr, "saveRequest")
          /\ (hr.pc = "saveRequest" /\ hr.token \notin DOMAIN requests)
             => /\ DOMAIN requests' = DOMAIN requests \cup {hr.token}
                /\ Cardinality(DOMAIN requests') = Cardinality(DOMAIN requests) + 1]_vars

\* three events (one get_link, two texts), no failure: two Requests are stored, the
\* link of one has just been replied and the handler of the other is about to reply
C11_Witness ==
  /\ delivered = 3
  /\ faults = 0
  /\ Cardinality(DOMAIN requests) = 2
  /\ \E t1 \in DOMAIN requests :
       /\ sent = <<Message("reply", BOT_OWNER_ID, MsgReady(ExpectedLink(t1)))>>
       /\ \E hr \in InFlight :
            /\ hr.kind = "text"
            /\ hr.pc = "replyReady"
            /\ hr.token \in DOMAIN requests \ {t1}

\* C12: a text handler clears the state only after its saveRequest has completed
\* (its Request is stored) and only a text handler at clearUserState removes the
\* owner's state; a failed saveRequest or a failed clearUserState changes neither
\* table; and after such a stop, with a Request stored, the state still
\* awaiting_request and no other handler in progress, the saveRequest of a later
\* accepted message is under a token not yet stored and adds a second Request.
C12_PersistThenClear ==
  [][\A hr \in InFlight :
       (hr.kind = "text" /\ Stepped(hr))
       => /\ hr.pc = "clearUserState"
             => /\ Len(hr.did) > 0
                /\ hr.did[Len(hr.did)] = "saveRequest"
                /\ hr.token \in DOMAIN requests
          /\ (BOT_OWNER_ID \in DOMAIN user_states /\ BOT_OWNER_ID \notin DOMAIN user_states')
             => hr.pc = "clearUserState"
          /\ (hr.pc \in {"saveRequest", "clearUserState"} /\ ~NoFault)
             => /\ requests' = requests
                /\ user_states' = user_states
                /\ MovesTo(hr, "catch")
          /\ (/\ hr.pc = "saveRequest"
              /\ NoFault
              /\ faults > 0
              /\ handlers = SetToBag({hr})
              /\ requests # EmptyTable
              /\ StateOf(user_states, BOT_OWNER_ID) = "awaiting_request")
             => /\ hr.token \notin DOMAIN requests
                /\ Cardinality(DOMAIN requests') = Cardinality(DOMAIN requests) + 1]_vars

\* the positions of a text handler that has classified its text
Classified == {"replyInvalid", "replyZero", "saveRequest", "clearUserState", "replyReady"}

\* C13: for every text handler that has classified its trimmed text: the text is not
\* both all digits and a URL; the handler is on the rejecting path exactly when the
\* text is neither, or is all zeros; an all-digits text of value > 0 has type stars
\* and as value that integer; a text matching the URL pattern has type nft and
\* itself as value.
C13_ClassificationTotal ==
  \A hr \in InFlight :
    (hr.kind = "text" /\ hr.pc \in Classified)
    => LET text == Trim(hr.text) IN
       /\ ~(AllDigits(text) /\ isUrl(text))
       /\ hr.pc \in {"replyInvalid", "replyZero"} <=> Rejected(text)
       /\ AllZeros(text) => hr.pc = "replyZero"
       /\ (AllDigits(text) /\ ~AllZeros(text))
          => /\ hr.type = "stars"
             /\ hr.value.isNum
             /\ DigitChars(hr.value.num) = StripLeadingZeros(text)
       /\ isUrl(text)
          => /\ hr.type = "nft"
             /\ hr.value = StringValue(text)

\* C14: with persistence configured and no operation failing, when the handler of
\* any update (/start, get_link, text) returns, the users table holds the row of the
\* sender with the username of that update.
C14_UserRecordAfterInteraction ==
  [][\A hr \in InFlight :
       (pool /\ faults' = 0 /\ Returned(hr))
       => /\ hr.from \in DOMAIN users'
          /\ users'[hr.from] = [username |-> IF hr.username = "" THEN "null" ELSE hr.username]]_vars

\* C15: without persistence configured every answer of GET /c/:token is 200, made
\* without a lookup, with the copy page (not the not-found page, not the server
\* error) showing base URL + '/c/' + token and no stored value.
C15_DegradedPage ==
  (~pool /\ response.status # 0)
  => /\ response.status = 200
     /\ response.lookup = "skipped"
     /\ response.body.textToCopy = ExpectedLink(response.token)
     /\ EndsWith(response.body.description, ExpectedLink(response.token))
     /\ response.body.displayValue = NULL
     /\ response.body.title = <<"Skopirovat' ssylku">>
     /\ response.body # ServerError

\* without persistence the owner has triggered get_link and a token has been resolved
C15_Witness ==
  /\ ~pool
  /\ response.status = 200
  /\ response.token = generateRandomToken(TokenLen, 0)
  /\ delivered >= 2
  /\ handlers = EmptyBag

\* every record of user_states is the owner's and holds awaiting_request
StatesWellFormed(table) ==
  /\ DOMAIN table \subseteq {BOT_OWNER_ID}
  /\ \A u \in DOMAIN table : table[u] = "awaiting_request"

\* C16: in every state user_states holds at most the owner's record, with value
\* awaiting_request (one record per identity: the table is keyed by user_id); and a
\* step that removes the record is the clearUserState of a text handler of the owner
\* whose text is accepted and whose saveRequest has completed, its Request stored.
C16_StateRecordLifetime ==
  [][/\ StatesWellFormed(user_states)
     /\ StatesWellFormed(user_states')
     /\ \A u \in DOMAIN user_states \ DOMAIN user_states' :
          \E hr \in InFlight :
            /\ Stepped(hr)
            /\ hr.kind = "text"
            /\ hr.from = BOT_OWNER_ID
            /\ u = BOT_OWNER_ID
            /\ hr.pc = "clearUserState"
            /\ Accepted(Trim(hr.text))
            /\ hr.did = <<"getUserState", "saveRequest">>
            /\ hr.token \in DOMAIN requests]_vars

\* after a get_link, a rejected text and an accepted text the record has been removed
C16_Witness ==
  /\ delivered = 3
  /\ BOT_OWNER_ID \notin DOMAIN user_states
  /\ requests # EmptyTable
  /\ sent = <<>>
  /\ \E hr \in InFlight : hr.kind = "text" /\ hr.pc = "replyReady"
  /\ \E hr \in InFlight : hr.kind = "text" /\ hr.pc \in {"replyInvalid", "replyZero"}

\* the text handler hr of an accepted text whose saveRequest has rejected
SaveFailed(hr) ==
  /\ hr.kind = "text"
  /\ hr.from = BOT_OWNER_ID
  /\ hr.pc = "catch"
  /\ hr.did = <<"getUserState", "throw">>
  /\ Accepted(Trim(hr.text))

\* C17: when the saveRequest of an owner's text handler rejects, that step changes
\* no table and sends nothing and the handler goes to its catch block; the catch
\* block, when its reply does not fail, sends the generic error reply and no link,
\* changes no table and returns. So no Request is added and the handler leaves the
\* owner's state as it is.
C17_FailedSaveLeavesStore ==
  [][\A hr \in InFlight :
       (hr.kind = "text" /\ hr.from = BOT_OWNER_ID /\ Stepped(hr))
       => /\ (hr.pc = "saveRequest" /\ ~NoFault)
             => /\ UNCHANGED <<users, user_states, requests>>
                /\ sent' = <<>>
                /\ \E x \in BagToSet(handlers') : Becomes(hr, x) /\ SaveFailed(x)
          /\ (SaveFailed(hr) /\ NoFault)
             => /\ UNCHANGED <<users, user_states, requests>>
                /\ sent' = <<Message("reply", BOT_OWNER_ID, MsgError)>>
                /\ Returned(hr)]_vars

\* the saveRequest for "007" has just rejected: the handler is in its catch block,
\* nothing is stored and the state is still awaiting_request
C17_Witness ==
  /\ \E hr \in InFlight : SaveFailed(hr) /\ Trim(hr.text) = <<"0", "0", "7">>
  /\ faults = 1
  /\ sent = <<>>
  /\ requests = EmptyTable
  /\ StateOf(user_states, BOT_OWNER_ID) = "awaiting_request"

\* C18: every stored Request has the owner as user, a type stars or nft, as value
\* the decimal string of a positive integer when the type is stars and a string
\* matching the URL pattern when it is nft, and as link base URL + '/c/' + its token.
C18_RequestsWellFormed ==
  \A t \in DOMAIN requests :
    LET row == requests[t] IN
    /\ row.user_id = BOT_OWNER_ID
    /\ row.request_type \in {"stars", "nft"}
    /\ row.request_type = "stars"
       => /\ AllDigits(row.request_value)
          /\ row.request_value[1] # "0"
    /\ row.request_type = "nft" => isUrl(row.request_value)
    /\ row.generated_link = ExpectedLink(t)

\* C19: without persistence configured no Request and no state record is ever
\* stored, and every text handler returns at its state read (getUserState gives
\* null without a query) having sent nothing: no link, no corrective or error reply.
C19_NoPoolNoFlow ==
  [][~pool
     => /\ requests' = EmptyTable
        /\ user_states' = EmptyTable
        /\ \A hr \in InFlight :
             (hr.kind = "text" /\ Stepped(hr))
             => /\ hr.pc = "getUserState"
                /\ getUserState(hr.from) = "null"
                /\ Returned(hr)
                /\ sent' = <<>>]_vars

\* without persistence the owner's get_link has just replied its prompt while the
\* handler of an accepted text of the owner is at its state read; nothing is stored
C19_Witness ==
  /\ ~pool
  /\ sent = <<Message("reply", BOT_OWNER_ID, MsgPrompt)>>
  /\ \E hr \in InFlight :
       /\ hr.kind = "text"
       /\ hr.from = BOT_OWNER_ID
       /\ hr.pc = "getUserState"
       /\ Accepted(Trim(hr.text))
  /\ requests = EmptyTable
  /\ user_states = EmptyTable

\* the owner's flow is open and the handler of an accepted text of the owner is about
\* to read the state; nothing has failed
FlowPending ==
  /\ pool
  /\ faults = 0
  /\ StateOf(user_states, BOT_OWNER_ID) = "awaiting_request"
  /\ \E hr \in InFlight :
       /\ hr.kind = "text"
       /\ hr.from = BOT_OWNER_ID
       /\ hr.pc = "getUserState"
       /\ Accepted(Trim(hr.text))

\* the last step replied a link to the owner
LinkReplied ==
  \E i \in 1..Len(sent) : sent[i].to = BOT_OWNER_ID /\ IsLinkReply(sent[i])

\* C20: under fair scheduling of the handlers, from a state where the owner's flow is
\* open and an accepted text of the owner is being handled, unless an operation
\* fails a link is eventually replied to the owner and the owner's state is
\* eventually absent; and the handlers in progress always eventually have all returned.
C20_FlowCompletes ==
  /\ FlowPending ~> (LinkReplied \/ faults > 0)
  /\ FlowPending ~> (BOT_OWNER_ID \notin DOMAIN user_states \/ faults > 0)
  /\ []<>(handlers = EmptyBag)

\* get_link and an accepted text have been handled without a failure: the link has
\* just been replied, the state is absent and no handler is in progress
C20_Witness ==
  /\ pool
  /\ faults = 0
  /\ delivered = 2
  /\ LinkReplied
  /\ BOT_OWNER_ID \notin DOMAIN user_states
  /\ handlers = EmptyBag
====
